---- MODULE Spec2Model ----
(***************************************************************************)
(* Model of compitur/scraper, src/main.cpp: the two tree walks             *)
(* (search_for_table_body, cleantext) over a Gumbo node tree and the       *)
(* one-shot pipeline of main() that composes them.                         *)
(*                                                                         *)
(* Two specifications share the walk steps:                                *)
(*   Spec      main(): fetch, parse, locate, extract, persist, destroy.    *)
(*   UnitSpec  the two functions called, any number of times and in any    *)
(*             order, on the root of an arbitrary bounded tree.            *)
(* FairSpec / FairUnitSpec add weak fairness of the step relation: the     *)
(* program is single-threaded and synchronous, so an enabled step is       *)
(* eventually executed.                                                    *)
(***************************************************************************)
EXTENDS Integers, Sequences, FiniteSets, TLC

(* ---------------------------------------------------------------------- *)
(* Bounds                                                                  *)
(* ---------------------------------------------------------------------- *)
MaxNodes == 3

(* ---------------------------------------------------------------------- *)
(* Node trees                                                              *)
(* ---------------------------------------------------------------------- *)
\* node->type.  Only GUMBO_NODE_TEXT and GUMBO_NODE_ELEMENT are named by the
\* code; every other type takes the remaining branch.  WHITESPACE is the
\* parser's type for a text node made of whitespace only, COMMENT a leaf
\* that carries text, and TEMPLATE a non-element type that owns children.
NodeTypes == {"ELEMENT", "TEXT", "WHITESPACE", "COMMENT", "TEMPLATE"}

\* node->v.element.tag.  DIV stands for every tag the code does not name.
Tags == {"TBODY", "SCRIPT", "STYLE", "DIV"}

\* The (type, tag) pairs a node can carry.
Labels ==
    [type : {"ELEMENT"}, tag : Tags]
        \cup [type : {"TEMPLATE"}, tag : {"TEMPLATE"}]
        \cup [type : {"TEXT", "WHITESPACE", "COMMENT"}, tag : {"NONE"}]

\* Types whose nodes own a child vector.
HasChildVector(ty) == ty \in {"ELEMENT", "TEMPLATE"}

\* node->v.text.text of node i: a string is a sequence of characters.  A
\* text node holds a leading blank and a character unique to the node, a
\* whitespace node a single blank, a comment its own marker.
Content(ty, i) ==
    CASE ty = "TEXT" -> <<" ", ToString(i)>>
      [] ty = "WHITESPACE" -> <<" ">>
      [] ty = "COMMENT" -> <<"#">>
      [] OTHER -> <<>>

\* nullptr, as a node reference.
Null == 0

\* output->root.
Root == 1

\* parent[i] of every node but the root; a parent is numbered below its
\* children, and siblings are in document order by number.
ParentFns(n) ==
    {p \in [2..n -> 1..n] : \A i \in 2..n : p[i] < i}

\* The children of node i in document order.
ChildSeq(p, n, i) ==
    LET S == {j \in 2..n : p[j] = i}
    IN  [k \in 1..Cardinality(S) |->
            CHOOSE j \in S : Cardinality({m \in S : m < j}) = k - 1]

MkTree(n, p, lab) ==
    [n        |-> n,
     type     |-> [i \in 1..n |-> lab[i].type],
     tag      |-> [i \in 1..n |-> lab[i].tag],
     text     |-> [i \in 1..n |-> Content(lab[i].type, i)],
     children |-> [i \in 1..n |-> ChildSeq(p, n, i)]]

TreesOfSize(n) ==
    UNION {{MkTree(n, p, lab) :
                lab \in {l \in [1..n -> Labels] :
                            \A i \in 2..n : HasChildVector(l[p[i]].type)}} :
           p \in ParentFns(n)}

\* Every tree of at most MaxNodes nodes.
AllTrees == UNION {TreesOfSize(n) : n \in 1..MaxNodes}

\* gumbo_parse: output->root is always an element.
ParsedTrees == {t \in AllTrees : t.type[Root] = "ELEMENT"}

\* Before gumbo_parse there is no tree.
NoTree == [n |-> 0, type |-> <<>>, tag |-> <<>>, text |-> <<>>, children |-> <<>>]

Nodes(t) == 1..t.n

(* ---------------------------------------------------------------------- *)
(* The tests the two functions make                                        *)
(* ---------------------------------------------------------------------- *)
\* Mutant: the slot is not tested, so a later match overwrites the first.
SearchReturnsEarly_NoSlotTest(t, slot, node) ==
    t.type[node] # "ELEMENT"

\* Mutant: only text nodes are turned away, other non-element nodes are
\* treated as elements.
SearchReturnsEarly_TextOnly(t, slot, node) ==
    slot # Null \/ t.type[node] = "TEXT"

\* main.cpp:24  if (*table_body || node->type != GUMBO_NODE_ELEMENT) return;
SearchReturnsEarly(t, slot, node) ==
    slot # Null \/ t.type[node] # "ELEMENT"

\* Mutant: the type test comes first, so every node passed is examined.
TypeIsRead_Always(slot) == TRUE

\* main.cpp:24  the || is short-circuit: node->type is read only when the
\* slot is still empty.
TypeIsRead(slot) == slot = Null

\* Mutant: the search compares with the wrong tag.
IsTableBody_WrongTag(t, node) == t.tag[node] = "DIV"

\* main.cpp:28  node->v.element.tag == GUMBO_TAG_TBODY
IsTableBody(t, node) == t.tag[node] = "TBODY"

\* main.cpp:7
IsText(t, node) == t.type[node] = "TEXT"

\* Mutant: the style test is missing.
IsContentElement_NoStyle(t, node) ==
    /\ t.type[node] = "ELEMENT"
    /\ t.tag[node] # "SCRIPT"

\* main.cpp:9-11
IsContentElement(t, node) ==
    /\ t.type[node] = "ELEMENT"
    /\ t.tag[node] # "SCRIPT"
    /\ t.tag[node] # "STYLE"

\* Mutant: the child's text is put in front of the contents.
AppendContents_Prepend(contents, s) == s \o contents

\* main.cpp:15  contents += <returned string>
AppendContents(contents, s) == contents \o s

(* ---------------------------------------------------------------------- *)
(* cleantext as a function of the tree                                     *)
(* ---------------------------------------------------------------------- *)
RECURSIVE cleantext(_, _)
RECURSIVE cleantextLoop(_, _, _, _)

\* main.cpp:14-17, from index i with the contents accumulated so far.
cleantextLoop(t, node, i, contents) ==
    IF i <= Len(t.children[node])
    THEN cleantextLoop(t, node, i + 1,
             AppendContents(contents, cleantext(t, t.children[node][i])))
    ELSE contents

cleantext(t, node) ==
    IF IsText(t, node) THEN t.text[node]
    ELSE IF IsContentElement(t, node) THEN cleantextLoop(t, node, 1, <<>>)
    ELSE <<>>

(* ---------------------------------------------------------------------- *)
(* State                                                                   *)
(* ---------------------------------------------------------------------- *)
VARIABLES
    pc,           \* position of main(), or of the caller in UnitSpec
    status_code,  \* r.status_code
    tree,         \* the GumboOutput the nodes live in
    alive,        \* "none", "live" or "destroyed": lifetime of the tree
    destroys,     \* number of gumbo_destroy_output calls
    uaf,          \* a node was read while the tree was not live
    table_body,   \* the caller's result slot, GumboNode* table_body
    sstack,       \* activation records of search_for_table_body, top first
    examined,     \* nodes whose type, tag or children the search has read
    invoked,      \* nodes search_for_table_body has been called on
    cstack,       \* activation records of cleantext, top first
    visited,      \* nodes cleantext has been called on
    table_text,   \* the string cleantext returned to its caller
    outfile,      \* ../data/parsed_text.txt as this run left it
    out,          \* what the run printed, in order
    exit_code,    \* return value of main()
    prev          \* UnitSpec: result of the previous completed search

vars == <<pc, status_code, tree, alive, destroys, uaf, table_body, sstack,
          examined, invoked, cstack, visited, table_text, outfile, out,
          exit_code, prev>>

mainVars == <<status_code, alive, destroys, outfile, out, exit_code>>

\* main.cpp:43
HTTP_OK == 200

StatusCodes == {HTTP_OK, 404, 0}

NoFile == [written |-> FALSE, data |-> <<>>]

\* Reading a node of a tree that is not live is a use after free.
ReadsNode == uaf' = (uaf \/ alive # "live")

(* ---------------------------------------------------------------------- *)
(* search_for_table_body, one step per test, call and return               *)
(* ---------------------------------------------------------------------- *)
SearchFrame(node) == [node |-> node, i |-> 0]

Searching == pc = "locate" /\ sstack # <<>>

\* main.cpp:24-26.  The || reads node->type only when the slot is empty.
SearchEarlyReturn ==
    /\ Searching
    /\ LET f == Head(sstack) IN
        /\ f.i = 0
        /\ SearchReturnsEarly(tree, table_body, f.node)
        /\ sstack' = Tail(sstack)
        /\ invoked' = Append(invoked, f.node)
        /\ IF TypeIsRead(table_body)
           THEN examined' = Append(examined, f.node) /\ ReadsNode
           ELSE UNCHANGED <<examined, uaf>>
    /\ UNCHANGED <<pc, tree, table_body, cstack, visited, table_text, prev>>
    /\ UNCHANGED mainVars

\* main.cpp:28-31
SearchMatch ==
    /\ Searching
    /\ LET f == Head(sstack) IN
        /\ f.i = 0
        /\ ~SearchReturnsEarly(tree, table_body, f.node)
        /\ IsTableBody(tree, f.node)
        /\ table_body' = f.node
        /\ sstack' = Tail(sstack)
        /\ invoked' = Append(invoked, f.node)
        /\ examined' = Append(examined, f.node)
    /\ ReadsNode
    /\ UNCHANGED <<pc, tree, cstack, visited, table_text, prev>>
    /\ UNCHANGED mainVars

\* main.cpp:33-34, entering the loop
SearchDescend ==
    /\ Searching
    /\ LET f == Head(sstack) IN
        /\ f.i = 0
        /\ ~SearchReturnsEarly(tree, table_body, f.node)
        /\ ~IsTableBody(tree, f.node)
        /\ sstack' = <<[f EXCEPT !.i = 1]>> \o Tail(sstack)
        /\ invoked' = Append(invoked, f.node)
        /\ examined' = Append(examined, f.node)
    /\ ReadsNode
    /\ UNCHANGED <<pc, tree, table_body, cstack, visited, table_text, prev>>
    /\ UNCHANGED mainVars

\* Mutant: the loop index is not advanced.
SearchLoopCall_NoIncrement ==
    /\ Searching
    /\ LET f == Head(sstack) IN
        /\ f.i >= 1
        /\ f.i <= Len(tree.children[f.node])
        /\ sstack' = <<SearchFrame(tree.children[f.node][f.i]), f>>
                          \o Tail(sstack)
    /\ ReadsNode
    /\ UNCHANGED <<pc, tree, table_body, examined, invoked, cstack, visited,
                   table_text, prev>>
    /\ UNCHANGED mainVars

\* main.cpp:34-35, the call on children->data[i]; ++i happens on return
SearchLoopCall ==
    /\ Searching
    /\ LET f == Head(sstack) IN
        /\ f.i >= 1
        /\ f.i <= Len(tree.children[f.node])
        /\ sstack' = <<SearchFrame(tree.children[f.node][f.i]),
                       [f EXCEPT !.i = f.i + 1]>> \o Tail(sstack)
    /\ ReadsNode
    /\ UNCHANGED <<pc, tree, table_body, examined, invoked, cstack, visited,
                   table_text, prev>>
    /\ UNCHANGED mainVars

\* main.cpp:34,37, the loop ends and the call returns
SearchLoopExit ==
    /\ Searching
    /\ LET f == Head(sstack) IN
        /\ f.i >= 1
        /\ f.i > Len(tree.children[f.node])
        /\ sstack' = Tail(sstack)
    /\ ReadsNode
    /\ UNCHANGED <<pc, tree, table_body, examined, invoked, cstack, visited,
                   table_text, prev>>
    /\ UNCHANGED mainVars

SearchStep ==
    \/ SearchEarlyReturn
    \/ SearchMatch
    \/ SearchDescend
    \/ SearchLoopCall
    \/ SearchLoopExit

(* ---------------------------------------------------------------------- *)
(* cleantext, one step per test, call and return                           *)
(* ---------------------------------------------------------------------- *)
CleanFrame(node) == [node |-> node, i |-> 0, contents |-> <<>>]

Cleaning == pc = "extract" /\ cstack # <<>>

\* return s: the caller appends s and advances its loop, or, for the
\* outermost call, takes s as the result.
CleanReturn(s) ==
    LET rest == Tail(cstack) IN
    IF rest = <<>>
    THEN /\ cstack' = <<>>
         /\ table_text' = s
    ELSE /\ cstack' = <<[Head(rest) EXCEPT
                            !.contents = AppendContents(@, s),
                            !.i = @ + 1]>> \o Tail(rest)
         /\ UNCHANGED table_text

\* Mutant: the text is moved out of the node instead of copied.
CleanReturnText_Consumes ==
    /\ Cleaning
    /\ LET f == Head(cstack) IN
        /\ f.i = 0
        /\ IsText(tree, f.node)
        /\ CleanReturn(tree.text[f.node])
        /\ visited' = Append(visited, f.node)
        /\ tree' = [tree EXCEPT !.text[f.node] = <<>>]
    /\ ReadsNode
    /\ UNCHANGED <<pc, table_body, sstack, examined, invoked, prev>>
    /\ UNCHANGED mainVars

\* main.cpp:7-8
CleanReturnText ==
    /\ Cleaning
    /\ LET f == Head(cstack) IN
        /\ f.i = 0
        /\ IsText(tree, f.node)
        /\ CleanReturn(tree.text[f.node])
        /\ visited' = Append(visited, f.node)
    /\ ReadsNode
    /\ UNCHANGED <<pc, tree, table_body, sstack, examined, invoked, prev>>
    /\ UNCHANGED mainVars

\* main.cpp:9-14, entering the loop with contents = ""
CleanEnterElement ==
    /\ Cleaning
    /\ LET f == Head(cstack) IN
        /\ f.i = 0
        /\ ~IsText(tree, f.node)
        /\ IsContentElement(tree, f.node)
        /\ cstack' = <<[f EXCEPT !.i = 1, !.contents = <<>>]>> \o Tail(cstack)
        /\ visited' = Append(visited, f.node)
    /\ ReadsNode
    /\ UNCHANGED <<pc, tree, table_body, sstack, examined, invoked,
                   table_text, prev>>
    /\ UNCHANGED mainVars

\* main.cpp:18-20
CleanReturnEmpty ==
    /\ Cleaning
    /\ LET f == Head(cstack) IN
        /\ f.i = 0
        /\ ~IsText(tree, f.node)
        /\ ~IsContentElement(tree, f.node)
        /\ CleanReturn(<<>>)
        /\ visited' = Append(visited, f.node)
    /\ ReadsNode
    /\ UNCHANGED <<pc, tree, table_body, sstack, examined, invoked, prev>>
    /\ UNCHANGED mainVars

\* main.cpp:14-15, the call on children->data[i]
CleanLoopCall ==
    /\ Cleaning
    /\ LET f == Head(cstack) IN
        /\ f.i >= 1
        /\ f.i <= Len(tree.children[f.node])
        /\ cstack' = <<CleanFrame(tree.children[f.node][f.i])>> \o cstack
    /\ ReadsNode
    /\ UNCHANGED <<pc, tree, table_body, sstack, examined, invoked, visited,
                   table_text, prev>>
    /\ UNCHANGED mainVars

\* main.cpp:14,17, the loop ends and contents is returned
CleanLoopExit ==
    /\ Cleaning
    /\ LET f == Head(cstack) IN
        /\ f.i >= 1
        /\ f.i > Len(tree.children[f.node])
        /\ CleanReturn(f.contents)
    /\ ReadsNode
    /\ UNCHANGED <<pc, tree, table_body, sstack, examined, invoked, visited,
                   prev>>
    /\ UNCHANGED mainVars

CleanStep ==
    \/ CleanReturnText
    \/ CleanEnterElement
    \/ CleanReturnEmpty
    \/ CleanLoopCall
    \/ CleanLoopExit

(* ---------------------------------------------------------------------- *)
(* main()                                                                  *)
(* ---------------------------------------------------------------------- *)
walkVars == <<tree, table_body, sstack, examined, invoked, cstack, visited,
              table_text, prev, uaf>>

\* main.cpp:57  if (table_body)
TableFound == table_body # Null

\* main.cpp:41-46, the response is not 200
FetchFail ==
    /\ pc = "fetch"
    /\ \E code \in StatusCodes \ {HTTP_OK} : status_code' = code
    /\ out' = Append(out, "fetch_failed")
    /\ exit_code' = 1
    /\ pc' = "done"
    /\ UNCHANGED <<alive, destroys, outfile>>
    /\ UNCHANGED walkVars

\* main.cpp:41-47, the response is 200
FetchOk ==
    /\ pc = "fetch"
    /\ status_code' = HTTP_OK
    /\ out' = Append(out, "fetched")
    /\ pc' = "parse"
    /\ UNCHANGED <<alive, destroys, outfile, exit_code>>
    /\ UNCHANGED walkVars

\* main.cpp:50-54: gumbo_parse, then the call search_for_table_body(root, &slot)
Parse ==
    /\ pc = "parse"
    /\ \E t \in ParsedTrees : tree' = t
    /\ alive' = "live"
    /\ table_body' = Null
    /\ sstack' = <<SearchFrame(Root)>>
    /\ pc' = "locate"
    /\ UNCHANGED <<status_code, destroys, uaf, examined, invoked, cstack,
                   visited, table_text, outfile, out, exit_code, prev>>

\* main.cpp:57-59: the search has returned with a match; cleantext is called
LocateFound ==
    /\ pc = "locate"
    /\ sstack = <<>>
    /\ TableFound
    /\ out' = Append(out, "header")
    /\ cstack' = <<CleanFrame(table_body)>>
    /\ pc' = "extract"
    /\ UNCHANGED <<status_code, tree, alive, destroys, uaf, table_body, sstack,
                   examined, invoked, visited, table_text, outfile, exit_code,
                   prev>>

\* Mutant: main returns from the not-found branch without destroying the tree.
LocateNotFound_Leak ==
    /\ pc = "locate"
    /\ sstack = <<>>
    /\ ~TableFound
    /\ out' = Append(out, "not_found")
    /\ exit_code' = 0
    /\ pc' = "done"
    /\ UNCHANGED <<status_code, alive, destroys, outfile>>
    /\ UNCHANGED walkVars

\* main.cpp:57,71-73: the search has returned without a match
LocateNotFound ==
    /\ pc = "locate"
    /\ sstack = <<>>
    /\ ~TableFound
    /\ out' = Append(out, "not_found")
    /\ pc' = "destroy"
    /\ UNCHANGED <<status_code, alive, destroys, outfile, exit_code>>
    /\ UNCHANGED walkVars

\* main.cpp:60-67: the text is printed and the file opens
PersistOk ==
    /\ pc = "extract"
    /\ cstack = <<>>
    /\ outfile' = [written |-> TRUE, data |-> table_text]
    /\ out' = out \o <<"text", "written">>
    /\ pc' = "destroy"
    /\ UNCHANGED <<status_code, alive, destroys, exit_code>>
    /\ UNCHANGED walkVars

\* main.cpp:60-64,68-70: the text is printed and the file does not open
PersistFail ==
    /\ pc = "extract"
    /\ cstack = <<>>
    /\ out' = out \o <<"text", "open_failed">>
    /\ pc' = "destroy"
    /\ UNCHANGED <<status_code, alive, destroys, outfile, exit_code>>
    /\ UNCHANGED walkVars

\* main.cpp:76-78
Destroy ==
    /\ pc = "destroy"
    /\ alive' = "destroyed"
    /\ destroys' = destroys + 1
    /\ exit_code' = 0
    /\ pc' = "done"
    /\ UNCHANGED <<status_code, outfile, out>>
    /\ UNCHANGED walkVars

Init ==
    /\ pc = "fetch"
    /\ status_code = 0
    /\ tree = NoTree
    /\ alive = "none"
    /\ destroys = 0
    /\ uaf = FALSE
    /\ table_body = Null
    /\ sstack = <<>>
    /\ examined = <<>>
    /\ invoked = <<>>
    /\ cstack = <<>>
    /\ visited = <<>>
    /\ table_text = <<>>
    /\ outfile = NoFile
    /\ out = <<>>
    /\ exit_code = -1
    /\ prev = [done |-> FALSE, body |-> Null]

Next ==
    \/ FetchFail
    \/ FetchOk
    \/ Parse
    \/ SearchStep
    \/ LocateFound
    \/ LocateNotFound
    \/ CleanStep
    \/ PersistOk
    \/ PersistFail
    \/ Destroy

Spec == Init /\ [][Next]_vars

\* main() runs to completion: every enabled step is eventually taken.
FairSpec == Spec /\ WF_vars(Next)

(* ---------------------------------------------------------------------- *)
(* The two functions called directly on the root of any tree               *)
(* ---------------------------------------------------------------------- *)
\* search_for_table_body(root, &slot) with an empty slot
CallSearch ==
    /\ pc = "idle"
    /\ table_body' = Null
    /\ sstack' = <<SearchFrame(Root)>>
    /\ examined' = <<>>
    /\ invoked' = <<>>
    /\ pc' = "locate"
    /\ UNCHANGED <<tree, uaf, cstack, visited, table_text, prev>>
    /\ UNCHANGED mainVars

\* the outermost search_for_table_body has returned
SearchReturned ==
    /\ pc = "locate"
    /\ sstack = <<>>
    /\ prev' = [done |-> TRUE, body |-> table_body]
    /\ pc' = "idle"
    /\ UNCHANGED <<tree, uaf, table_body, sstack, examined, invoked, cstack,
                   visited, table_text>>
    /\ UNCHANGED mainVars

\* cleantext(root)
CallCleantext ==
    /\ pc = "idle"
    /\ cstack' = <<CleanFrame(Root)>>
    /\ visited' = <<>>
    /\ table_text' = <<>>
    /\ pc' = "extract"
    /\ UNCHANGED <<tree, uaf, table_body, sstack, examined, invoked, prev>>
    /\ UNCHANGED mainVars

\* the outermost cleantext has returned
CleantextReturned ==
    /\ pc = "extract"
    /\ cstack = <<>>
    /\ pc' = "idle"
    /\ UNCHANGED <<tree, uaf, table_body, sstack, examined, invoked, cstack,
                   visited, table_text, prev>>
    /\ UNCHANGED mainVars

UnitInit ==
    /\ pc = "idle"
    /\ status_code = 0
    /\ tree \in AllTrees
    /\ alive = "live"
    /\ destroys = 0
    /\ uaf = FALSE
    /\ table_body = Null
    /\ sstack = <<>>
    /\ examined = <<>>
    /\ invoked = <<>>
    /\ cstack = <<>>
    /\ visited = <<>>
    /\ table_text = <<>>
    /\ outfile = NoFile
    /\ out = <<>>
    /\ exit_code = -1
    /\ prev = [done |-> FALSE, body |-> Null]

UnitNext ==
    \/ CallSearch
    \/ SearchStep
    \/ SearchReturned
    \/ CallCleantext
    \/ CleanStep
    \/ CleantextReturned

UnitSpec == UnitInit /\ [][UnitNext]_vars

\* A call, once made, runs to completion.
FairUnitSpec == UnitSpec /\ WF_vars(SearchStep) /\ WF_vars(CleanStep)

(* ---------------------------------------------------------------------- *)
(* Vocabulary of the properties                                            *)
(* ---------------------------------------------------------------------- *)
Range(s) == {s[k] : k \in DOMAIN s}

NoDuplicates(s) == \A j, k \in DOMAIN s : s[j] = s[k] => j = k

ChildSet(t, n) == Range(t.children[n])

RECURSIVE Descendants(_, _)
Descendants(t, n) ==
    UNION {{c} \cup Descendants(t, c) : c \in ChildSet(t, n)}

AncestorsOrSelf(t, n) == {a \in Nodes(t) : a = n \/ n \in Descendants(t, a)}

RECURSIVE PreOrder(_, _)
RECURSIVE PreOrderFrom(_, _, _)

\* The subtrees of the children of n from index i on, in document order.
PreOrderFrom(t, n, i) ==
    IF i <= Len(t.children[n])
    THEN PreOrder(t, t.children[n][i]) \o PreOrderFrom(t, n, i + 1)
    ELSE <<>>

\* Pre-order depth-first order: a node, then its children's subtrees.
PreOrder(t, n) == <<n>> \o PreOrderFrom(t, n, 1)

Pos(s, x) == CHOOSE k \in DOMAIN s : s[k] = x

Before(t, a, b) == Pos(PreOrder(t, Root), a) < Pos(PreOrder(t, Root), b)

Earliest(t, S) == CHOOSE n \in S : \A m \in S \ {n} : Before(t, n, m)

IsElement(t, n) == t.type[n] = "ELEMENT"

IsMarker(t, n) == IsElement(t, n) /\ t.tag[n] = "TBODY"

IsExcluded(t, n) == IsElement(t, n) /\ t.tag[n] \in {"SCRIPT", "STYLE"}

Markers(t) == {n \in Nodes(t) : IsMarker(t, n)}

\* n and all its ancestors are element nodes.
ElementReached(t, n) == \A a \in AncestorsOrSelf(t, n) : IsElement(t, a)

Depth(t, n) == Cardinality(AncestorsOrSelf(t, n))

ReachedMarkers(t) == {n \in Markers(t) : ElementReached(t, n)}

RECURSIVE ConcatFrom(_, _, _)
\* cleantext of the children of n from index i on, joined in document order.
ConcatFrom(t, n, i) ==
    IF i <= Len(t.children[n])
    THEN cleantext(t, t.children[n][i]) \o ConcatFrom(t, n, i + 1)
    ELSE <<>>

\* The outermost call has returned to its caller.
SearchDone == pc = "locate" /\ sstack = <<>>

CleanDone == pc = "extract" /\ cstack = <<>>

Built == alive # "none"

(* ---------------------------------------------------------------------- *)
(* C1                                                                      *)
(* ---------------------------------------------------------------------- *)
\* C1 as stated: on a tree with an element root that contains a tbody
\* element, the search ends with the slot at the tbody element that is
\* earliest in pre-order, and a second search ends at the same node.
C1_Original ==
    (SearchDone /\ IsElement(tree, Root) /\ Markers(tree) # {}) =>
        /\ table_body = Earliest(tree, Markers(tree))
        /\ prev.done => table_body = prev.body

\* C1, amended: the search started on the root with an empty slot ends with
\* the slot at the earliest, in pre-order, of the tbody elements that are
\* reached from the root through element nodes only, never at a later one,
\* and a second search on the same tree ends at the same node.
C1_FirstReachedMarker ==
    SearchDone =>
        /\ ReachedMarkers(tree) # {} =>
                table_body = Earliest(tree, ReachedMarkers(tree))
        /\ prev.done => table_body = prev.body

\* A second search has returned on a tree with two reached tbody elements at
\* different depths, with the slot at the first of them.
C1_Witness ==
    /\ SearchDone
    /\ prev.done
    /\ \E a, b \in ReachedMarkers(tree) :
          /\ Before(tree, a, b)
          /\ Depth(tree, a) # Depth(tree, b)
          /\ table_body = a

(* ---------------------------------------------------------------------- *)
(* C2                                                                      *)
(* ---------------------------------------------------------------------- *)
\* C2: on a tree without tbody element the slot stays empty, main() prints
\* the not-found message, never calls cleantext and never writes the file;
\* a finished run printed the not-found message exactly when nothing was
\* located, and a run that located a table body, empty or not, printed the
\* header and never the not-found message.
C2_NotFoundDistinct ==
    /\ (Built /\ Markers(tree) = {}) =>
          /\ table_body = Null
          /\ cstack = <<>> /\ visited = <<>>
          /\ ~outfile.written
          /\ "header" \notin Range(out) /\ "written" \notin Range(out)
          /\ pc \in {"destroy", "done"} => "not_found" \in Range(out)
    /\ (Built /\ pc = "done") =>
          /\ ("not_found" \in Range(out)) <=> (table_body = Null)
          /\ ("header" \in Range(out)) <=> (table_body # Null)
          /\ outfile.written => "not_found" \notin Range(out)

\* A run on a tree of several nodes without tbody has finished.
C2_Witness ==
    /\ pc = "done"
    /\ Built
    /\ tree.n >= 2
    /\ Markers(tree) = {}
    /\ "not_found" \in Range(out)

(* ---------------------------------------------------------------------- *)
(* C3                                                                      *)
(* ---------------------------------------------------------------------- *)
\* The character only text node d holds.
MarkOf(d) == ToString(d)

\* C3: for a script or style element E, cleantext(E) is empty, no text node
\* below E contributes to cleantext of E or of any ancestor of E, and the
\* walk is never called on a descendant of E.
C3_ExcludedSubtree ==
    \A e \in Nodes(tree) : IsExcluded(tree, e) =>
        /\ cleantext(tree, e) = <<>>
        /\ \A d \in Descendants(tree, e) :
              /\ d \notin Range(visited)
              /\ \A a \in AncestorsOrSelf(tree, e) :
                    MarkOf(d) \notin Range(cleantext(tree, a))
              /\ CleanDone => MarkOf(d) \notin Range(table_text)

\* cleantext has returned on a root that is an ancestor of a script or style
\* element with a text node below it.
C3_Witness ==
    /\ CleanDone
    /\ IsElement(tree, Root) /\ ~IsExcluded(tree, Root)
    /\ \E e \in Nodes(tree) \ {Root} :
          /\ IsExcluded(tree, e)
          /\ e \in Range(visited)
          /\ \E d \in Descendants(tree, e) : tree.type[d] = "TEXT"

(* ---------------------------------------------------------------------- *)
(* C4                                                                      *)
(* ---------------------------------------------------------------------- *)
\* C4 as stated: for any element with children, cleantext of the element is
\* the children's cleantext joined in document order.
C4_Original ==
    CleanDone =>
        \A e \in Nodes(tree) :
            (IsElement(tree, e) /\ tree.children[e] # <<>>) =>
                /\ cleantext(tree, e) = ConcatFrom(tree, e, 1)
                /\ e = Root => table_text = ConcatFrom(tree, e, 1)

\* C4, amended: for any element whose tag is neither script nor style,
\* cleantext of the element is the children's cleantext joined in document
\* order, with nothing between them.
C4_ConcatChildren ==
    CleanDone =>
        \A e \in Nodes(tree) :
            (IsElement(tree, e) /\ ~IsExcluded(tree, e)) =>
                /\ cleantext(tree, e) = ConcatFrom(tree, e, 1)
                /\ e = Root => table_text = ConcatFrom(tree, e, 1)

\* cleantext has returned on an element with two children that both
\* contribute text.
C4_Witness ==
    /\ CleanDone
    /\ IsElement(tree, Root) /\ ~IsExcluded(tree, Root)
    /\ Len(tree.children[Root]) >= 2
    /\ \A k \in DOMAIN tree.children[Root] :
          cleantext(tree, tree.children[Root][k]) # <<>>
    /\ table_text = cleantext(tree, tree.children[Root][1])
                        \o cleantext(tree, tree.children[Root][2])

(* ---------------------------------------------------------------------- *)
(* C5                                                                      *)
(* ---------------------------------------------------------------------- *)
\* A text leaf: a text node, or a text node of whitespace only.
IsTextLeaf(t, n) == t.type[n] \in {"TEXT", "WHITESPACE"}

RECURSIVE LeafText(_, _)
RECURSIVE LeafTextFrom(_, _, _)

LeafTextFrom(t, n, i) ==
    IF i <= Len(t.children[n])
    THEN LeafText(t, t.children[n][i]) \o LeafTextFrom(t, n, i + 1)
    ELSE <<>>

\* The contents, verbatim and in document order, of the text leaves in the
\* subtree of n that are reached through elements other than script and style.
LeafText(t, n) ==
    IF IsTextLeaf(t, n) THEN t.text[n]
    ELSE IF IsElement(t, n) /\ ~IsExcluded(t, n) THEN LeafTextFrom(t, n, 1)
    ELSE <<>>

\* C5: cleantext returns the contents of all text leaves below its argument
\* that have no script or style ancestor, verbatim, once each and in
\* document order, the leaves of inter-element whitespace included.
C5_AllTextLeaves ==
    /\ (pc = "extract" /\ cstack = <<>>) =>
          table_text = LeafText(tree, table_body)
    /\ outfile.written => outfile.data = LeafText(tree, table_body)

(* ---------------------------------------------------------------------- *)
(* C6                                                                      *)
(* ---------------------------------------------------------------------- *)
\* C6: once the slot is set, the node examined last is the match: no node is
\* examined after it, and no examined node comes after it in pre-order.
C6_ShortCircuit ==
    (pc = "locate" /\ TableFound) =>
        /\ examined # <<>>
        /\ examined[Len(examined)] = table_body
        /\ \A k \in DOMAIN examined :
              ~Before(tree, table_body, examined[k])

\* The search has returned with a match, and a node after the match in
\* pre-order was passed to the function and left unexamined.
C6_Witness ==
    /\ SearchDone
    /\ TableFound
    /\ \E n \in Nodes(tree) :
          /\ Before(tree, table_body, n)
          /\ n \in Range(invoked)
          /\ n \notin Range(examined)

(* ---------------------------------------------------------------------- *)
(* C7                                                                      *)
(* ---------------------------------------------------------------------- *)
\* C7: no step of either function, in any sequence of calls, changes a
\* node's type, tag, text or child list; while the search runs only the
\* slot and the search's own records change, and while cleantext runs only
\* its own records and the returned string change.
C7_ReadOnly ==
    [][/\ tree' = tree
       /\ (pc = "locate" /\ pc' = "locate") =>
              UNCHANGED <<cstack, visited, table_text, outfile, out>>
       /\ (pc = "extract" /\ pc' = "extract") =>
              UNCHANGED <<table_body, sstack, examined, invoked, outfile, out>>
      ]_vars

\* Both functions have run to completion on a tree with text below the root.
C7_Witness ==
    /\ pc = "idle"
    /\ prev.done
    /\ TableFound
    /\ Len(visited) >= 2
    /\ table_text # <<>>

(* ---------------------------------------------------------------------- *)
(* C8                                                                      *)
(* ---------------------------------------------------------------------- *)
\* C8: every call of either function on any root returns; neither function
\* is called twice on a node within one walk, and the string cleantext
\* returns is the value of the function.
C8_Terminates ==
    /\ [](/\ NoDuplicates(invoked)
          /\ NoDuplicates(visited)
          /\ CleanDone => table_text = cleantext(tree, Root))
    /\ (pc = "locate") ~> SearchDone
    /\ (pc = "extract") ~> CleanDone

\* On a tree of at least three nodes the search has visited every node and
\* returned without a match, after cleantext had visited every node.
C8_Witness ==
    /\ SearchDone
    /\ tree.n >= 3
    /\ ~TableFound
    /\ Range(invoked) = Nodes(tree)
    /\ Range(visited) = Nodes(tree)

(* ---------------------------------------------------------------------- *)
(* C9                                                                      *)
(* ---------------------------------------------------------------------- *)
\* C9: the slot, when set, is at an element with the tbody tag; the search
\* is never called on a child of a node that is not an element; cleantext
\* is empty for every node that is neither text nor element and is never
\* called on a child of such a node.
C9_ElementsOnly ==
    /\ TableFound => IsMarker(tree, table_body)
    /\ \A n \in Nodes(tree) : ~IsElement(tree, n) =>
          /\ table_body # n
          /\ ChildSet(tree, n) \cap Range(invoked) = {}
          /\ n \in Range(invoked) /\ pc = "locate" /\ sstack # <<>> =>
                \A k \in DOMAIN sstack : sstack[k].node = n => sstack[k].i = 0
    /\ \A n \in Nodes(tree) : tree.type[n] \notin {"TEXT", "ELEMENT"} =>
          /\ cleantext(tree, n) = <<>>
          /\ ChildSet(tree, n) \cap Range(visited) = {}

\* The search has returned empty after being called on a template node that
\* has a tbody child, and cleantext had been called on a non-element,
\* non-text node.
C9_Witness ==
    /\ SearchDone
    /\ ~TableFound
    /\ \E n \in Range(invoked) :
          /\ tree.type[n] = "TEMPLATE"
          /\ \E c \in ChildSet(tree, n) : IsMarker(tree, c)
    /\ \E n \in Range(visited) : tree.type[n] \notin {"TEXT", "ELEMENT"}

(* ---------------------------------------------------------------------- *)
(* C10                                                                     *)
(* ---------------------------------------------------------------------- *)
IsPrefix(s, r) == Len(s) <= Len(r) /\ \A k \in DOMAIN s : s[k] = r[k]

\* What a whole run prints, by path.
RunOutputs ==
    {<<"fetch_failed">>,
     <<"fetched", "not_found">>,
     <<"fetched", "header", "text", "written">>,
     <<"fetched", "header", "text", "open_failed">>}

\* The part of C10 that holds in every state of a run.
C10_Order ==
    /\ \E r \in RunOutputs : IsPrefix(out, r)
    /\ Built => status_code = HTTP_OK
    /\ invoked # <<>> => Built
    /\ visited # <<>> => (TableFound /\ sstack = <<>> /\ pc # "locate")
    /\ outfile.written =>
          /\ status_code = HTTP_OK
          /\ TableFound
          /\ cstack = <<>>
          /\ pc \in {"destroy", "done"}
          /\ outfile.data = table_text
          /\ table_text = cleantext(tree, table_body)
    /\ (pc = "done" /\ status_code # HTTP_OK) =>
          (exit_code = 1 /\ ~Built /\ tree = NoTree /\ invoked = <<>>)
    /\ (pc = "done" /\ status_code = HTTP_OK) =>
          (exit_code = 0 /\ alive = "destroyed" /\ destroys = 1)
    /\ alive = "destroyed" => pc = "done"
    /\ destroys = (IF alive = "destroyed" THEN 1 ELSE 0)
    /\ ~uaf

\* C10: the steps of a run happen in the order fetch, parse, locate,
\* extract, persist, destroy; the file is written only after a 200
\* response, a match and a completed extraction; a non-200 response ends the
\* run with exit code 1 and no tree; on every path a tree that was built is
\* eventually destroyed, exactly once and as the last step; no node is read
\* while the tree is not live.
C10_PipelineOrder ==
    /\ []C10_Order
    /\ (alive = "live") ~> (alive = "destroyed" /\ destroys = 1 /\ pc = "done")

\* A run that found a table body, extracted text and wrote the file has
\* finished with the tree destroyed.
C10_Witness ==
    /\ pc = "done"
    /\ outfile.written
    /\ outfile.data # <<>>
    /\ alive = "destroyed"
    /\ tree.n >= 3

====
